---- MODULE Spec2Model ----
(***************************************************************************)
(* The conversation engine of web_bot.py: the turn handler that walks a    *)
(* user through the locale choice and the nine application questions and   *)
(* appends the finished row to the spreadsheet.                            *)
(*                                                                         *)
(* Texts.  A text is a sequence of chunks and stands for the concatenation *)
(* of its chunks.  What the user types is one chunk per character, because *)
(* the handler reads it character by character (lower(), `in`, \d+).  The  *)
(* literals of the program (prompts, option labels, fixed responses) are   *)
(* kept as whole chunks.  The source's non-ASCII glyphs are written in     *)
(* ASCII here.                                                             *)
(***************************************************************************)
EXTENDS Integers, Sequences, FiniteSets, TLC

VARIABLES
    messages,   \* st.session_state.messages : the transcript
    step,       \* st.session_state.step     : -1, or the index of the question asked
    data,       \* st.session_state.data     : the answers collected so far
    lang,       \* st.session_state.lang     : None, "en" or "es"
    calls       \* every sh.append_row(row) invoked so far, with its outcome

vars == <<messages, step, data, lang, calls>>

(***************************************************************************)
(* Bounds of the model.                                                    *)
(***************************************************************************)
MaxTurns == 11
MaxTurnsSelect == 6
MaxTurnsLocale == 3
MaxTurnsTwice == 20
MaxTurnsLive == 22
MaxSetbacks == 1
MaxLen == 2

(***************************************************************************)
(* Python values and built-ins used by the handler.                        *)
(***************************************************************************)
None == "None"
NoOptions == <<>>

\* seq[i] of a Python list or tuple (0-based).
At(seq, i) == seq[i + 1]

Upper == <<"A","B","C","D","E","F","G","H","I","J","K","L","M",
           "N","O","P","Q","R","S","T","U","V","W","X","Y","Z">>
LowerLetters == <<"a","b","c","d","e","f","g","h","i","j","k","l","m",
                  "n","o","p","q","r","s","t","u","v","w","x","y","z">>

LowerChar(c) ==
    IF \E i \in 1..Len(Upper) : Upper[i] = c
        THEN LowerLetters[CHOOSE i \in 1..Len(Upper) : Upper[i] = c]
        ELSE c

\* the text left as typed (no .lower())
Lower_AsTyped(s) == s

\* str.lower()
Lower(s) == [i \in 1..Len(s) |-> LowerChar(s[i])]

\* `sub in txt`
Contains(txt, sub) ==
    \E i \in 0..(Len(txt) - Len(sub)) : SubSeq(txt, i + 1, i + Len(sub)) = sub

Digits == <<"0","1","2","3","4","5","6","7","8","9">>

\* what \d matches
IsDigit(c) == \E i \in 1..Len(Digits) : Digits[i] = c

DigitValue(c) == (CHOOSE i \in 1..Len(Digits) : Digits[i] = c) - 1

\* re.findall(r'\d+', s): one left-to-right scan; `cur` is the run being read.
RECURSIVE FindAll(_, _, _, _)
FindAll(s, i, cur, acc) ==
    IF i > Len(s)
        THEN IF cur # <<>> THEN Append(acc, cur) ELSE acc
        ELSE IF IsDigit(s[i])
            THEN FindAll(s, i + 1, Append(cur, s[i]), acc)
            ELSE FindAll(s, i + 1, <<>>, IF cur # <<>> THEN Append(acc, cur) ELSE acc)

\* re.findall(r'\d', s): every digit on its own
FindNumbers_EachDigit(user_input) ==
    LET ds == SelectSeq(user_input, IsDigit)
    IN  [i \in 1..Len(ds) |-> <<ds[i]>>]

FindNumbers(user_input) == FindAll(user_input, 1, <<>>, <<>>)

\* int(num) of a run of digits
RECURSIVE IntOf(_)
IntOf(num) ==
    IF num = <<>> THEN 0
    ELSE 10 * IntOf(SubSeq(num, 1, Len(num) - 1)) + DigitValue(num[Len(num)])

\* list(dict.fromkeys(xs)): first occurrences, in order
RECURSIVE FromKeys(_)
FromKeys(xs) ==
    IF xs = <<>> THEN <<>>
    ELSE LET front == FromKeys(SubSeq(xs, 1, Len(xs) - 1))
             x == xs[Len(xs)]
         IN IF \E i \in 1..Len(front) : front[i] = x THEN front ELSE Append(front, x)

\* sep.join(xs), as a text
RECURSIVE Join(_, _)
Join(sep, xs) ==
    IF xs = <<>> THEN <<>>
    ELSE IF Len(xs) = 1 THEN <<xs[1]>>
    ELSE Join(sep, SubSeq(xs, 1, Len(xs) - 1)) \o <<sep, xs[Len(xs)]>>

\* f"{n}" for 0 <= n <= 9999, zero-padded to `width` digits (strftime fields)
RECURSIVE Padded(_, _)
Padded(n, width) ==
    IF width = 0 THEN <<>>
    ELSE Append(Padded(n \div 10, width - 1), Digits[(n % 10) + 1])

\* datetime.strftime("%Y-%m-%d %H:%M:%S")
Strftime(t) ==
    Padded(t.year, 4) \o <<"-">> \o Padded(t.month, 2) \o <<"-">> \o Padded(t.day, 2)
    \o <<" ">> \o Padded(t.hour, 2) \o <<":">> \o Padded(t.minute, 2)
    \o <<":">> \o Padded(t.second, 2)

(***************************************************************************)
(* Constants and lists of the program.                                     *)
(***************************************************************************)
EXP_OPTIONS == <<"Housekeeping", "Houseman", "Dishwasher", "Prep Cook", "Line cook",
                 "Server", "Pool attendant / Host", "Other">>
SHIFT_OPTIONS == <<"AM", "PM", "Flexible", "Overnight">>
LANG_OPTIONS == <<"English", "Spanish", "Bilingual">>
TRANS_OPTIONS == <<"Own transportation", "Public Transportation">>

\* "\n".join([f"{i+1}. {opt}" for i, opt in enumerate(options)])
RECURSIVE NumberedList(_)
NumberedList(options) ==
    IF options = <<>> THEN <<>>
    ELSE LET n == Len(options)
             item == <<Digits[n + 1], ". ", options[n]>>
         IN IF n = 1 THEN item
            ELSE NumberedList(SubSeq(options, 1, n - 1)) \o <<"\n">> \o item

Question(head, field, options) ==
    [prompt |-> IF options = NoOptions THEN <<head>> ELSE <<head, "\n">> \o NumberedList(options),
     field |-> field,
     options |-> options]

QUESTIONS_EN == <<
    Question("Let's start. What is your **First Name**?", "First Name", NoOptions),
    Question("Thanks. And what is your **Last Name**?", "Last Name", NoOptions),
    Question("What is your **Phone Number**?", "Phone", NoOptions),
    Question("Select your **Previous Experience** (You can pick multiple, e.g., 1, 3):",
             "Experience", EXP_OPTIONS),
    Question("What position do you want to **Apply For**? (Select numbers)",
             "Applied Position", EXP_OPTIONS),
    Question("What **Shift** are you available to work?", "Shift", SHIFT_OPTIONS),
    Question("What **Language** do you speak?", "Language", LANG_OPTIONS),
    Question("What's your **Transportation** method?", "Transport", TRANS_OPTIONS),
    Question("When can you **Start**?", "Start Date", NoOptions) >>

\* QUESTIONS_ES with the options of the Shift question taken from the next line.
QUESTIONS_ES_ShiftSlip == <<
    Question("Empecemos. Cual es tu **Primer Nombre**?", "First Name", NoOptions),
    Question("Gracias. Y tu **Apellido**?", "Last Name", NoOptions),
    Question("Cual es tu numero de **Telefono**?", "Phone", NoOptions),
    Question("Selecciona tu **Experiencia Previa** (Puedes elegir varias, ej. 1, 3):",
             "Experience", EXP_OPTIONS),
    Question("A que posicion quieres **Aplicar**? (Selecciona numeros)",
             "Applied Position", EXP_OPTIONS),
    Question("Que **Turno** puedes trabajar?", "Shift", LANG_OPTIONS),
    Question("Que **Idioma** hablas?", "Language", LANG_OPTIONS),
    Question("Cual es tu metodo de **Transporte**?", "Transport", TRANS_OPTIONS),
    Question("Cuando puedes **Comenzar**?", "Start Date", NoOptions) >>

QUESTIONS_ES == <<
    Question("Empecemos. Cual es tu **Primer Nombre**?", "First Name", NoOptions),
    Question("Gracias. Y tu **Apellido**?", "Last Name", NoOptions),
    Question("Cual es tu numero de **Telefono**?", "Phone", NoOptions),
    Question("Selecciona tu **Experiencia Previa** (Puedes elegir varias, ej. 1, 3):",
             "Experience", EXP_OPTIONS),
    Question("A que posicion quieres **Aplicar**? (Selecciona numeros)",
             "Applied Position", EXP_OPTIONS),
    Question("Que **Turno** puedes trabajar?", "Shift", SHIFT_OPTIONS),
    Question("Que **Idioma** hablas?", "Language", LANG_OPTIONS),
    Question("Cual es tu metodo de **Transporte**?", "Transport", TRANS_OPTIONS),
    Question("Cuando puedes **Comenzar**?", "Start Date", NoOptions) >>

GreetingText == <<"Hello! / Hola!\n\nPlease type **English** or **Espanol** to start.">>
RepromptText == <<"Please type **English** or **Espanol**.">>
InvalidSelectionText == <<"Invalid selection. Please type the numbers (e.g., 1, 3).">>
ReceivedText == <<"Application Received! You can close this window.">>
ErrorPrefix == "Error saving data: "

KW_span == <<"s","p","a","n">>
KW_espa == <<"e","s","p","a">>
KW_eng == <<"e","n","g">>
KW_ingl == <<"i","n","g","l">>

(***************************************************************************)
(* The turn handler.                                                       *)
(***************************************************************************)

\* PhaseA with the English keywords tested first.
PhaseA_EnglishFirst(user_input) ==
    LET txt == Lower(user_input)
    IN  IF Contains(txt, KW_eng) \/ Contains(txt, KW_ingl)
            THEN [lang |-> "en", step |-> 0, data |-> data, calls |-> calls,
                  response_text |-> At(QUESTIONS_EN, 0).prompt]
        ELSE IF Contains(txt, KW_span) \/ Contains(txt, KW_espa)
            THEN [lang |-> "es", step |-> 0, data |-> data, calls |-> calls,
                  response_text |-> At(QUESTIONS_ES, 0).prompt]
        ELSE [lang |-> lang, step |-> step, data |-> data, calls |-> calls,
              response_text |-> RepromptText]

\* PhaseA falling back to English when no keyword is found.
PhaseA_DefaultEnglish(user_input) ==
    LET txt == Lower(user_input)
    IN  IF Contains(txt, KW_span) \/ Contains(txt, KW_espa)
            THEN [lang |-> "es", step |-> 0, data |-> data, calls |-> calls,
                  response_text |-> At(QUESTIONS_ES, 0).prompt]
        ELSE [lang |-> "en", step |-> 0, data |-> data, calls |-> calls,
              response_text |-> At(QUESTIONS_EN, 0).prompt]

\* PHASE A: LANGUAGE SELECTION
PhaseA(user_input) ==
    LET txt == Lower(user_input)
    IN  IF Contains(txt, KW_span) \/ Contains(txt, KW_espa)
            THEN [lang |-> "es", step |-> 0, data |-> data, calls |-> calls,
                  response_text |-> At(QUESTIONS_ES, 0).prompt]
        ELSE IF Contains(txt, KW_eng) \/ Contains(txt, KW_ingl)
            THEN [lang |-> "en", step |-> 0, data |-> data, calls |-> calls,
                  response_text |-> At(QUESTIONS_EN, 0).prompt]
        ELSE [lang |-> lang, step |-> step, data |-> data, calls |-> calls,
              response_text |-> RepromptText]

\* the loop of the validator: the options the numbers select, in input order
RECURSIVE ValidSelections(_, _)
ValidSelections(options_available, found_numbers) ==
    IF found_numbers = <<>> THEN <<>>
    ELSE LET front == ValidSelections(options_available,
                                      SubSeq(found_numbers, 1, Len(found_numbers) - 1))
             idx == IntOf(found_numbers[Len(found_numbers)])
         IN IF 1 <= idx /\ idx <= Len(options_available)
                THEN Append(front, At(options_available, idx - 1))
                ELSE front

\* Validator with the free text stripped of a leading and a trailing blank.
Validator_Stripped(options_available, user_input) ==
    IF options_available # NoOptions
        THEN LET found_numbers == FindNumbers(user_input)
                 valid_selections == ValidSelections(options_available, found_numbers)
             IN IF found_numbers # <<>> /\ valid_selections # <<>>
                    THEN [valid_answer |-> TRUE,
                          answer_to_save |-> Join(", ", FromKeys(valid_selections))]
                    ELSE [valid_answer |-> FALSE, answer_to_save |-> user_input]
        ELSE LET lo == IF user_input[1] = " " THEN 2 ELSE 1
                 hi == IF user_input[Len(user_input)] = " " THEN Len(user_input) - 1
                       ELSE Len(user_input)
             IN  [valid_answer |-> TRUE, answer_to_save |-> SubSeq(user_input, lo, hi)]

\* VALIDATOR
Validator(options_available, user_input) ==
    IF options_available # NoOptions
        THEN LET found_numbers == FindNumbers(user_input)
                 valid_selections == ValidSelections(options_available, found_numbers)
             IN IF found_numbers # <<>> /\ valid_selections # <<>>
                    THEN [valid_answer |-> TRUE,
                          answer_to_save |-> Join(", ", FromKeys(valid_selections))]
                    ELSE [valid_answer |-> FALSE, answer_to_save |-> user_input]
        ELSE [valid_answer |-> TRUE, answer_to_save |-> user_input]

\* Submit with the session rewound to the first question when the append fails.
Submit_RewindOnFailure(answers, now, sink_result) ==
    LET timestamp == Strftime(now)
        row == <<timestamp>> \o answers
        invoked == Append(calls, [row |-> row, result |-> sink_result])
    IN  IF sink_result.ok
            THEN [lang |-> None, step |-> -1, data |-> <<>>, calls |-> invoked,
                  response_text |-> ReceivedText]
            ELSE [lang |-> lang, step |-> 0, data |-> <<>>, calls |-> invoked,
                  response_text |-> <<ErrorPrefix>> \o sink_result.detail]

\* Submit with the reset done before the append is known to have succeeded.
Submit_ResetBeforeAppend(answers, now, sink_result) ==
    LET timestamp == Strftime(now)
        row == <<timestamp>> \o answers
        invoked == Append(calls, [row |-> row, result |-> sink_result])
    IN  [lang |-> None, step |-> -1, data |-> <<>>, calls |-> invoked,
         response_text |-> IF sink_result.ok THEN ReceivedText
                           ELSE <<ErrorPrefix>> \o sink_result.detail]

\* Submit without `st.session_state.data = []`.
Submit_KeepData(answers, now, sink_result) ==
    LET timestamp == Strftime(now)
        row == <<timestamp>> \o answers
        invoked == Append(calls, [row |-> row, result |-> sink_result])
    IN  IF sink_result.ok
            THEN [lang |-> None, step |-> -1, data |-> answers, calls |-> invoked,
                  response_text |-> ReceivedText]
            ELSE [lang |-> lang, step |-> step, data |-> answers, calls |-> invoked,
                  response_text |-> <<ErrorPrefix>> \o sink_result.detail]

\* Submit without the reset of step, data and lang after the append.
Submit_NoReset(answers, now, sink_result) ==
    LET timestamp == Strftime(now)
        row == <<timestamp>> \o answers
        invoked == Append(calls, [row |-> row, result |-> sink_result])
    IN  [lang |-> lang, step |-> step, data |-> answers, calls |-> invoked,
         response_text |-> IF sink_result.ok THEN ReceivedText
                           ELSE <<ErrorPrefix>> \o sink_result.detail]

\* Submit with lang left as it is when the session is reset.
Submit_KeepLang(answers, now, sink_result) ==
    LET timestamp == Strftime(now)
        row == <<timestamp>> \o answers
        invoked == Append(calls, [row |-> row, result |-> sink_result])
    IN  IF sink_result.ok
            THEN [lang |-> lang, step |-> -1, data |-> <<>>, calls |-> invoked,
                  response_text |-> ReceivedText]
            ELSE [lang |-> lang, step |-> step, data |-> answers, calls |-> invoked,
                  response_text |-> <<ErrorPrefix>> \o sink_result.detail]

\* the try block: build the row, append it to the sheet, reset the session
Submit(answers, now, sink_result) ==
    LET timestamp == Strftime(now)
        row == <<timestamp>> \o answers
        invoked == Append(calls, [row |-> row, result |-> sink_result])
    IN  IF sink_result.ok
            THEN [lang |-> None, step |-> -1, data |-> <<>>, calls |-> invoked,
                  response_text |-> ReceivedText]
            ELSE [lang |-> lang, step |-> step, data |-> answers, calls |-> invoked,
                  response_text |-> <<ErrorPrefix>> \o sink_result.detail]

\* the English questions whatever the locale
QList_AlwaysEN(l) == QUESTIONS_EN

\* q_list = QUESTIONS_ES if lang == 'es' else QUESTIONS_EN
QList(l) == IF l = "es" THEN QUESTIONS_ES ELSE QUESTIONS_EN

\* PhaseB storing the raw input and moving on when the selection is invalid.
PhaseB_SkipOnInvalid(user_input, now, sink_result) ==
    LET q_list == QList(lang)
        current_q == At(q_list, step)
        v == Validator(current_q.options, user_input)
        next_step == step + 1
    IN  IF next_step < Len(q_list)
            THEN [lang |-> lang, step |-> next_step,
                  data |-> Append(data, v.answer_to_save), calls |-> calls,
                  response_text |-> IF v.valid_answer THEN At(q_list, next_step).prompt
                                    ELSE InvalidSelectionText]
            ELSE Submit(Append(data, v.answer_to_save), now, sink_result)

\* PhaseB submitting one question early (next_step < len(q_list) - 1).
PhaseB_SubmitEarly(user_input, now, sink_result) ==
    LET q_list == QList(lang)
        current_q == At(q_list, step)
        v == Validator(current_q.options, user_input)
        next_step == step + 1
    IN  IF v.valid_answer
            THEN IF next_step < Len(q_list) - 1
                    THEN [lang |-> lang, step |-> next_step,
                          data |-> Append(data, v.answer_to_save), calls |-> calls,
                          response_text |-> At(q_list, next_step).prompt]
                    ELSE Submit(Append(data, v.answer_to_save), now, sink_result)
            ELSE [lang |-> lang, step |-> step, data |-> data, calls |-> calls,
                  response_text |-> InvalidSelectionText]

\* PHASE B: QUESTIONS
PhaseB(user_input, now, sink_result) ==
    LET q_list == QList(lang)
        current_q == At(q_list, step)
        v == Validator(current_q.options, user_input)
        next_step == step + 1
    IN  IF v.valid_answer
            THEN IF next_step < Len(q_list)
                    THEN [lang |-> lang, step |-> next_step,
                          data |-> Append(data, v.answer_to_save), calls |-> calls,
                          response_text |-> At(q_list, next_step).prompt]
                    ELSE Submit(Append(data, v.answer_to_save), now, sink_result)
            ELSE [lang |-> lang, step |-> step, data |-> data, calls |-> calls,
                  response_text |-> InvalidSelectionText]

\* HandleTurn with the transcript started afresh when the session is reset.
HandleTurn_FreshTranscript(user_input, now, sink_result) ==
    /\ user_input # <<>>
    /\ LET out == IF step = -1 THEN PhaseA(user_input)
                               ELSE PhaseB(user_input, now, sink_result)
           kept == IF step # -1 /\ out.step = -1 THEN <<>> ELSE messages
       IN  /\ messages' = kept \o << [role |-> "user", content |-> user_input],
                                     [role |-> "assistant", content |-> out.response_text] >>
           /\ step' = out.step
           /\ data' = out.data
           /\ lang' = out.lang
           /\ calls' = out.calls

\* HandleTurn with the locale keywords looked for on every turn.
HandleTurn_LocaleAnytime(user_input, now, sink_result) ==
    /\ user_input # <<>>
    /\ LET txt == Lower(user_input)
           named == \/ Contains(txt, KW_span) \/ Contains(txt, KW_espa)
                    \/ Contains(txt, KW_eng) \/ Contains(txt, KW_ingl)
           out == IF step = -1 \/ named THEN PhaseA(user_input)
                                        ELSE PhaseB(user_input, now, sink_result)
       IN  /\ messages' = messages \o << [role |-> "user", content |-> user_input],
                                         [role |-> "assistant", content |-> out.response_text] >>
           /\ step' = out.step
           /\ data' = out.data
           /\ lang' = out.lang
           /\ calls' = out.calls

\* One run of the script with a chat input: lines 94-165.
HandleTurn(user_input, now, sink_result) ==
    /\ user_input # <<>>
    /\ LET out == IF step = -1 THEN PhaseA(user_input)
                               ELSE PhaseB(user_input, now, sink_result)
       IN  /\ messages' = messages \o << [role |-> "user", content |-> user_input],
                                         [role |-> "assistant", content |-> out.response_text] >>
           /\ step' = out.step
           /\ data' = out.data
           /\ lang' = out.lang
           /\ calls' = out.calls

\* SESSION STATE of a new session
Init ==
    /\ messages = << [role |-> "assistant", content |-> GreetingText] >>
    /\ step = -1
    /\ data = <<>>
    /\ lang = None
    /\ calls = <<>>

(***************************************************************************)
(* The environment: what the user types, the clock, the spreadsheet.       *)
(***************************************************************************)
Turns == (Len(messages) - 1) \div 2

Empty == <<>>
T_English == <<"E","n","g","l","i","s","h">>
T_Espanol == <<"E","s","p","a","n","o","l">>
T_Both == <<"E","n","g","/","E","s","p","a">>
T_maybe == <<"m","a","y","b","e">>
T_Al == <<" ","A","l"," ">>
T_1_3 == <<"1",","," ","3">>
T_5 == <<"5">>

LocaleInputs == {Empty, T_English, T_Espanol, T_Both, T_maybe}
FreeTextInputs == {Empty, T_Al, T_English}
SelectInputs == {Empty, T_1_3, T_5}

InputsAt(s) ==
    IF s = -1 THEN LocaleInputs
    ELSE IF At(QUESTIONS_EN, s).options = NoOptions THEN FreeTextInputs
    ELSE SelectInputs

\* datetime.now()
Morning == [year |-> 2025, month |-> 3, day |-> 9, hour |-> 8, minute |-> 5, second |-> 0]
YearEnd == [year |-> 2025, month |-> 12, day |-> 31, hour |-> 23, minute |-> 59, second |-> 59]
Times == {Morning, YearEnd}

\* sh.append_row(row) returns, or raises an exception e with str(e) = detail
Returned == [ok |-> TRUE, detail |-> <<>>]
SinkResults == { Returned,
                 [ok |-> FALSE, detail |-> <<"APIError: [429] quota exceeded">>],
                 [ok |-> FALSE, detail |-> <<"Connection aborted">>] }

ChatTurn ==
    /\ Turns < MaxTurns
    /\ \E user_input \in InputsAt(step), now \in Times, sink_result \in SinkResults :
           HandleTurn(user_input, now, sink_result)

Next == ChatTurn

Spec == Init /\ [][Next]_vars

(***************************************************************************)
(* Short sessions with many selection inputs: every text of at most MaxLen *)
(* characters over SelectAlphabet, and the inputs the documentation names. *)
(* These sessions end before the last question, so the clock and the sheet *)
(* are never consulted and one value of each is drawn.                     *)
(***************************************************************************)
SelectAlphabet == {"1", "9", ","}

T_1_1_2 == <<"1",","," ","1",","," ","2">>
T_2_1 == <<"2",",","1">>
T_12 == <<"1","2">>
T_0 == <<"0">>
T_01 == <<"0","1">>
T_no == <<"n","o">>

TextsUpTo(n) == UNION { [1..k -> SelectAlphabet] : k \in 0..n }

WideSelectInputs == TextsUpTo(MaxLen) \cup {T_1_3, T_1_1_2, T_2_1, T_12, T_0, T_01, T_5, T_no}

SelectStudyInputsAt(s) ==
    IF s = -1 THEN {T_English, T_Espanol}
    ELSE IF At(QUESTIONS_EN, s).options = NoOptions THEN {T_Al}
    ELSE WideSelectInputs

SelectStudyTurn ==
    /\ Turns < MaxTurnsSelect
    /\ \E user_input \in SelectStudyInputsAt(step), now \in {Morning}, sink_result \in {Returned} :
           HandleTurn(user_input, now, sink_result)

NextSelect == SelectStudyTurn

SpecSelect == Init /\ [][NextSelect]_vars

(***************************************************************************)
(* Short sessions with many locale inputs.                                 *)
(***************************************************************************)
T_ENGLISH == <<"E","N","G","L","I","S","H">>
T_eng == <<"e","n","g">>
T_Ingles == <<"I","n","g","l","e","s">>
T_Spanish == <<"S","p","a","n","i","s","h">>
T_ESPA == <<"E","S","P","A">>
T_en == <<"e","n">>
T_es == <<"e","s">>
T_e_n_g == <<"e"," ","n"," ","g">>
T_spa == <<"s","p","a">>
T_ing == <<"i","n","g">>
T_SpanEng == <<"S","p","a","n"," ","e","n","g">>
T_inglespanol == <<"i","n","g","l","e","s","p","a","n","o","l">>

WideLocaleInputs ==
    {Empty, T_English, T_ENGLISH, T_eng, T_Ingles, T_Spanish, T_Espanol, T_ESPA,
     T_Both, T_SpanEng, T_inglespanol, T_maybe, T_en, T_es, T_e_n_g, T_spa, T_ing, T_1_3}

LocaleStudyInputsAt(s) ==
    IF s = -1 THEN WideLocaleInputs ELSE {T_Al, T_English}

LocaleStudyTurn ==
    /\ Turns < MaxTurnsLocale
    /\ \E user_input \in LocaleStudyInputsAt(step), now \in {Morning}, sink_result \in {Returned} :
           HandleTurn(user_input, now, sink_result)

NextLocale == LocaleStudyTurn

SpecLocale == Init /\ [][NextLocale]_vars

(***************************************************************************)
(* Sessions of several applications in a row: every input is valid and the *)
(* append succeeds, so each application takes one turn per question after  *)
(* the locale choice.  Two inputs are drawn for the locale, the first name *)
(* and the shift, one for the other questions.                             *)
(***************************************************************************)
RepeatInputsAt(s) ==
    IF s = -1 THEN {T_English, T_Espanol}
    ELSE IF s = 0 THEN {T_Al, T_English}
    ELSE IF s = 5 THEN {T_1_3, T_2_1}
    ELSE IF At(QUESTIONS_EN, s).options = NoOptions THEN {T_Al}
    ELSE {T_1_3}

RepeatTurn ==
    /\ Turns < MaxTurnsTwice
    /\ \E user_input \in RepeatInputsAt(step), now \in Times, sink_result \in {Returned} :
           HandleTurn(user_input, now, sink_result)

NextTwice == RepeatTurn

SpecTwice == Init /\ [][NextTwice]_vars

(***************************************************************************)
(* Sessions of a user who keeps typing, in Spanish, and of a sheet that    *)
(* works in the end: at most MaxSetbacks turns in all are re-prompted or   *)
(* end in an append that raises.                                           *)
(***************************************************************************)
FailedCalls == Cardinality({ i \in 1..Len(calls) : ~calls[i].result.ok })

InvalidTurns ==
    Cardinality({ i \in 1..Len(messages) :
                     /\ messages[i].role = "assistant"
                     /\ messages[i].content \in {RepromptText, InvalidSelectionText} })

T_1 == <<"1">>

SetbacksSoFar == InvalidTurns + FailedCalls

Aborted == [ok |-> FALSE, detail |-> <<"Connection aborted">>]

LiveInputsAt(s) ==
    IF s = -1
        THEN {T_Espanol} \cup (IF SetbacksSoFar < MaxSetbacks THEN {T_maybe} ELSE {})
    ELSE IF At(QUESTIONS_EN, s).options = NoOptions THEN {T_Al}
    ELSE {T_1} \cup (IF SetbacksSoFar < MaxSetbacks THEN {T_no} ELSE {})

LiveTurn ==
    /\ Turns < MaxTurnsLive
    /\ \E user_input \in LiveInputsAt(step), now \in {Morning},
          sink_result \in (IF SetbacksSoFar < MaxSetbacks THEN {Returned, Aborted} ELSE {Returned}) :
           HandleTurn(user_input, now, sink_result)

NextLive == LiveTurn

SpecLive == Init /\ [][NextLive]_vars /\ WF_vars(NextLive)

(***************************************************************************)
(* Vocabulary of the properties.  A step of the handler is read off the    *)
(* transcript: it adds the user's input and then the response.             *)
(***************************************************************************)
LastIndex == Len(QUESTIONS_EN) - 1

TurnTaken == messages' # messages
TurnInput == messages'[Len(messages') - 1].content
TurnResponse == messages'[Len(messages')].content
Appended == Len(calls') = Len(calls) + 1 /\ SubSeq(calls', 1, Len(calls)) = calls
NewCall == calls'[Len(calls')]
CurrentOptions == At(QList(lang), step).options

LastResponse == messages[Len(messages)].content
IsErrorResponse(m) == m.role = "assistant" /\ m.content # <<>> /\ m.content[1] = ErrorPrefix
JustFailed == IsErrorResponse(messages[Len(messages)])

\* the shape YYYY-MM-DD HH:MM:SS
IsTimestamp(t) ==
    /\ Len(t) = 19
    /\ \A i \in 1..19 :
          IF i \in {5, 8} THEN t[i] = "-"
          ELSE IF i = 11 THEN t[i] = " "
          ELSE IF i \in {14, 17} THEN t[i] = ":"
          ELSE IsDigit(t[i])

\* a is labels of `options`, all different, separated by ", "
IsSelectionOf(options, a) ==
    /\ Len(a) % 2 = 1
    /\ \A k \in 1..Len(a) :
          IF k % 2 = 0 THEN a[k] = ", "
          ELSE /\ \E j \in 1..Len(options) : options[j] = a[k]
               /\ \A k2 \in 1..Len(a) : (k2 # k /\ k2 % 2 = 1) => a[k2] # a[k]

AnswerFits(i, a) ==
    LET options == At(QUESTIONS_EN, i).options
    IN  options = NoOptions \/ IsSelectionOf(options, a)

(***************************************************************************)
(* The selection a text denotes, stated on the text itself: a maximal run  *)
(* of digits starts at i when s[i] is a digit and s[i-1] is not; it        *)
(* denotes option k (1 <= k <= 9) when it is zeros followed by the digit k.*)
(***************************************************************************)
RunStarts(s) == { i \in 1..Len(s) : IsDigit(s[i]) /\ (i = 1 \/ ~IsDigit(s[i - 1])) }

RunEnd(s, i) ==
    CHOOSE j \in i..Len(s) :
        /\ \A m \in i..j : IsDigit(s[m])
        /\ j = Len(s) \/ ~IsDigit(s[j + 1])

Denotes(s, i, k) ==
    LET j == RunEnd(s, i)
    IN  s[j] = Digits[k + 1] /\ \A m \in i..(j - 1) : s[m] = "0"

Selected(options, s) ==
    { k \in 1..Len(options) : \E i \in RunStarts(s) : Denotes(s, i, k) }

FirstPos(s, k) ==
    CHOOSE i \in RunStarts(s) :
        Denotes(s, i, k) /\ \A i2 \in RunStarts(s) : Denotes(s, i2, k) => i <= i2

Rank(options, s, k) ==
    1 + Cardinality({ k2 \in Selected(options, s) : FirstPos(s, k2) < FirstPos(s, k) })

ExpectedAnswer(options, s) ==
    [ p \in 1..(2 * Cardinality(Selected(options, s)) - 1) |->
        IF p % 2 = 0 THEN ", "
        ELSE options[CHOOSE k \in Selected(options, s) : Rank(options, s, k) = (p + 1) \div 2] ]

\* the turn's input is accepted as an answer to the question asked
Accepted(options, s) == options = NoOptions \/ Selected(options, s) # {}
AnswerOf(options, s) == IF options = NoOptions THEN s ELSE ExpectedAnswer(options, s)

(***************************************************************************)
(* C1.  Every row passed to append_row is the timestamp followed by        *)
(* exactly one answer per question (9 answers), in question order.         *)
(* Stated as the claim states it; the handler breaks it on the turn after  *)
(* a failed append.                                                        *)
(***************************************************************************)
C1_RowShape ==
    \A c \in 1..Len(calls) :
        LET row == calls[c].row
        IN  /\ Len(row) = 1 + Len(QUESTIONS_EN)
            /\ IsTimestamp(row[1])
            /\ \A i \in 0..LastIndex : AnswerFits(i, row[i + 2])

(***************************************************************************)
(* C2 as claimed.  After a failed append, append_row is not invoked again  *)
(* until every question has been answered again: when the last append     *)
(* failed, a new append comes only after at least one turn per question    *)
(* since the error response.                                               *)
(***************************************************************************)
LastErrorAt ==
    CHOOSE i \in 1..Len(messages) :
        IsErrorResponse(messages[i])
        /\ \A j \in (i + 1)..Len(messages) : ~IsErrorResponse(messages[j])

LastCallFailed == calls # <<>> /\ ~calls[Len(calls)].result.ok

C3_FailureKeepsState ==
    [][ (TurnTaken /\ step = LastIndex /\ Accepted(CurrentOptions, TurnInput)
            /\ calls' # calls /\ ~NewCall.result.ok)
          => /\ TurnResponse = <<ErrorPrefix>> \o NewCall.result.detail
             /\ NewCall.result.detail # <<>>
             /\ step' = step
             /\ step' # -1
             /\ lang' = lang
             /\ data' = Append(data, AnswerOf(CurrentOptions, TurnInput)) ]_vars

C3_Witness ==
    /\ Len(calls) = 1
    /\ ~calls[1].result.ok
    /\ step = LastIndex
    /\ lang = "en"
    /\ Len(data) = Len(QUESTIONS_EN)
    /\ LastResponse = <<ErrorPrefix, "Connection aborted">>

(***************************************************************************)
(* C4.  A valid answer to the last question with a successful append: the  *)
(* response is the completion message; lang, step and data are back at     *)
(* their initial values; the transcript keeps its earlier entries.         *)
(***************************************************************************)
C4_SuccessResets ==
    [][ (TurnTaken /\ step = LastIndex /\ Accepted(CurrentOptions, TurnInput)
            /\ calls' # calls /\ NewCall.result.ok)
          => /\ TurnResponse = ReceivedText
             /\ lang' = None
             /\ step' = -1
             /\ data' = <<>>
             /\ Len(messages') = Len(messages) + 2
             /\ SubSeq(messages', 1, Len(messages)) = messages ]_vars

C4_Witness ==
    /\ Len(calls) = 1
    /\ calls[1].result.ok
    /\ step = -1 /\ lang = None /\ data = <<>>
    /\ Len(messages) = 1 + 2 * (1 + Len(QUESTIONS_EN))
    /\ LastResponse = ReceivedText

(***************************************************************************)
(* C5.  append_row is invoked only on a turn in the answer phase with the  *)
(* cursor at the last question and the answer accepted, once; and while no *)
(* append has failed, the locale choices and accepted answers of the       *)
(* session make up one completed application per append plus the one in    *)
(* progress.                                                               *)
(***************************************************************************)
IsPromptFrom(content, lo) ==
    \E i \in lo..LastIndex :
        content = At(QUESTIONS_EN, i).prompt \/ content = At(QUESTIONS_ES, i).prompt

LocaleChoices ==
    Cardinality({ i \in 1..Len(messages) :
        i > 1 /\ messages[i].role = "assistant" /\ IsPromptFrom(messages[i].content, 0)
              /\ ~IsPromptFrom(messages[i].content, 1) })

AcceptedAnswers ==
    Cardinality({ i \in 1..Len(messages) :
        messages[i].role = "assistant"
        /\ (IsPromptFrom(messages[i].content, 1) \/ messages[i].content = ReceivedText) })

NoAppendFailed == \A i \in 1..Len(calls) : calls[i].result.ok

C5_AppendOnlyOnCompletion ==
    /\ [][ calls' # calls
             => /\ TurnTaken
                /\ step # -1
                /\ step = LastIndex
                /\ Accepted(CurrentOptions, TurnInput)
                /\ TurnResponse # InvalidSelectionText
                /\ Appended ]_vars
    /\ [](NoAppendFailed
             => /\ LocaleChoices = Len(calls) + (IF step = -1 THEN 0 ELSE 1)
                /\ AcceptedAnswers = Len(QUESTIONS_EN) * Len(calls) + Len(data))

C5_Witness ==
    /\ Len(calls) = 1
    /\ NoAppendFailed
    /\ LocaleChoices = 2
    /\ AcceptedAnswers = Len(QUESTIONS_EN)
    /\ step = 0

(***************************************************************************)
(* C6.  On a multi-select question the answer is: every maximal run of     *)
(* digits, left to right, as a 1-based index; indices outside              *)
(* [1, len(options)] dropped; the options left, without repetitions, in    *)
(* order of first occurrence, joined with ", ".  With nothing left the     *)
(* turn stores nothing.                                                    *)
(***************************************************************************)
C6_SelectionAnswer ==
    [][ (TurnTaken /\ step # -1 /\ CurrentOptions # NoOptions)
          => LET options == CurrentOptions
                 s == TurnInput
             IN  /\ IF Selected(options, s) = {}
                        THEN data' = data
                        ELSE data' = Append(data, ExpectedAnswer(options, s))
                 /\ s = T_1_3 => data' = Append(data, <<options[1], ", ", options[3]>>)
                 /\ s = T_1_1_2 => data' = Append(data, <<options[1], ", ", options[2]>>)
                 /\ s = T_2_1 => data' = Append(data, <<options[2], ", ", options[1]>>)
                 /\ s = T_12 => data' = data ]_vars

C6_Witness ==
    /\ Len(data) = 5
    /\ data[4] = <<"Houseman", ", ", "Housekeeping">>
    /\ data[5] = <<"Housekeeping", ", ", "Houseman">>
    /\ messages[10].content = T_2_1
    /\ messages[12].content = T_1_1_2

(***************************************************************************)
(* C7.  On a multi-select question an input with no digits, or with every  *)
(* index out of range, is rejected: lang, step and data are unchanged, the *)
(* transcript grows by the input and the warning, append_row is not        *)
(* invoked; and so on every such turn, however many in a row.              *)
(***************************************************************************)
NoDigits(s) == \A i \in 1..Len(s) : ~IsDigit(s[i])

C7_InvalidSelectionRejected ==
    [][ (TurnTaken /\ step # -1 /\ CurrentOptions # NoOptions
            /\ (NoDigits(TurnInput) \/ Selected(CurrentOptions, TurnInput) = {}))
          => /\ lang' = lang
             /\ step' = step
             /\ data' = data
             /\ calls' = calls
             /\ messages' = messages \o << [role |-> "user", content |-> TurnInput],
                                           [role |-> "assistant", content |-> InvalidSelectionText] >> ]_vars

C7_Witness ==
    /\ step = 3
    /\ Len(data) = 3
    /\ Len(messages) = 13
    /\ messages[10].content = T_no
    /\ messages[11].content = InvalidSelectionText
    /\ messages[12].content = <<"9", "9">>
    /\ messages[13].content = InvalidSelectionText

(***************************************************************************)
(* C8.  An accepted answer to a question other than the last: exactly one  *)
(* answer is added at the end of data, step grows by one, lang is          *)
(* unchanged, the response is the prompt of the question at the new step   *)
(* in the active locale.                                                   *)
(***************************************************************************)
C8_AcceptedAdvances ==
    [][ (TurnTaken /\ step # -1 /\ step < LastIndex /\ Accepted(CurrentOptions, TurnInput))
          => /\ data' = Append(data, AnswerOf(CurrentOptions, TurnInput))
             /\ step' = step + 1
             /\ lang' = lang
             /\ TurnResponse = (IF lang = "es" THEN At(QUESTIONS_ES, step + 1).prompt
                                                ELSE At(QUESTIONS_EN, step + 1).prompt) ]_vars

C8_Witness ==
    /\ lang = "es"
    /\ step = 6
    /\ Len(data) = 6
    /\ data[1] = T_Al
    /\ data[6] = <<"AM", ", ", "Flexible">>
    /\ LastResponse = At(QUESTIONS_ES, 6).prompt

(***************************************************************************)
(* C9 as claimed.  In the locale phase an input whose lower-cased text     *)
(* holds a keyword of a locale sets lang to that locale, step to 0, keeps  *)
(* data empty, and is answered with the first prompt of that locale.       *)
(***************************************************************************)
HasKeyword(s, kws) ==
    \E kw \in kws : \E i \in 1..Len(s) :
        /\ i + Len(kw) - 1 <= Len(s)
        /\ \A j \in 1..Len(kw) : LowerChar(s[i + j - 1]) = kw[j]

KeywordsES == {KW_span, KW_espa}
KeywordsEN == {KW_eng, KW_ingl}

Chooses(locale, questions) ==
    /\ lang' = locale
    /\ step' = 0
    /\ data' = <<>>
    /\ calls' = calls
    /\ TurnResponse = At(questions, 0).prompt

C9_KeywordSelectsLocale ==
    [][ (TurnTaken /\ step = -1)
          => /\ HasKeyword(TurnInput, KeywordsES) => Chooses("es", QUESTIONS_ES)
             /\ HasKeyword(TurnInput, KeywordsEN) => Chooses("en", QUESTIONS_EN) ]_vars

(***************************************************************************)
(* C9 as amended.  The Spanish keywords are tested first: an input with a  *)
(* Spanish keyword chooses es; an input with an English keyword and no     *)
(* Spanish keyword chooses en.                                             *)
(***************************************************************************)
C9_KeywordSelectsLocaleSpanishFirst ==
    [][ (TurnTaken /\ step = -1)
          => /\ HasKeyword(TurnInput, KeywordsES) => Chooses("es", QUESTIONS_ES)
             /\ (HasKeyword(TurnInput, KeywordsEN) /\ ~HasKeyword(TurnInput, KeywordsES))
                    => Chooses("en", QUESTIONS_EN) ]_vars

C9_Witness ==
    /\ Len(messages) = 5
    /\ messages[2].content = T_maybe
    /\ messages[4].content = T_ENGLISH
    /\ lang = "en" /\ step = 0 /\ data = <<>>
    /\ LastResponse = At(QUESTIONS_EN, 0).prompt

(***************************************************************************)
(* C10 as claimed.  In the locale phase an input with keywords of both     *)
(* locales is answered with the locale re-prompt and chooses no locale.    *)
(***************************************************************************)
Ambiguous(s) == HasKeyword(s, KeywordsES) /\ HasKeyword(s, KeywordsEN)

C10_AmbiguousReprompts ==
    [][ (TurnTaken /\ step = -1 /\ Ambiguous(TurnInput))
          => /\ step' = -1
             /\ lang' = None
             /\ TurnResponse = RepromptText ]_vars

(***************************************************************************)
(* C10 as amended.  In the locale phase an input with keywords of both     *)
(* locales chooses es: lang is es, step is 0, and the response is the      *)
(* first Spanish prompt.                                                   *)
(***************************************************************************)
C10_AmbiguousChoosesSpanish ==
    [][ (TurnTaken /\ step = -1 /\ Ambiguous(TurnInput))
          => /\ lang' = "es"
             /\ step' = 0
             /\ step' # -1
             /\ TurnResponse = At(QUESTIONS_ES, 0).prompt
             /\ TurnResponse # RepromptText ]_vars

C10_Witness ==
    /\ Len(messages) = 3
    /\ messages[2].content = T_Both
    /\ lang = "es" /\ step = 0
    /\ LastResponse = At(QUESTIONS_ES, 0).prompt


(***************************************************************************)
(* C11.  In the locale phase an input with no keyword of either locale     *)
(* leaves lang, step and data as they are and is answered with the locale  *)
(* re-prompt, every time; append_row is not invoked.  So a session of such *)
(* inputs only never leaves the locale phase.                              *)
(***************************************************************************)
Unmatched(s) == ~HasKeyword(s, KeywordsES) /\ ~HasKeyword(s, KeywordsEN)

C11_UnmatchedReprompts ==
    [][ (TurnTaken /\ step = -1 /\ Unmatched(TurnInput))
          => /\ lang' = lang /\ lang' = None
             /\ step' = -1
             /\ data' = data /\ data' = <<>>
             /\ calls' = calls
             /\ TurnResponse = RepromptText ]_vars

C11_Witness ==
    /\ Len(messages) = 7
    /\ messages[2].content = T_maybe
    /\ messages[4].content = T_en
    /\ messages[6].content = T_maybe
    /\ \A i \in {3, 5, 7} : messages[i].content = RepromptText
    /\ step = -1 /\ lang = None /\ data = <<>> /\ calls = <<>>

(***************************************************************************)
(* C12.  On a free-text question every input is accepted and stored as     *)
(* typed: the answer added to data (and, on the last question, sent as the *)
(* last field of the row) is the raw input; the response is never the      *)
(* validation warning; step moves on, except on the last question, where   *)
(* it is reset by a successful append and kept by a failed one.            *)
(***************************************************************************)
C12_FreeTextVerbatim ==
    [][ (TurnTaken /\ step # -1 /\ CurrentOptions = NoOptions)
          => /\ TurnResponse # InvalidSelectionText
             /\ IF step < LastIndex
                    THEN /\ data' = Append(data, TurnInput)
                         /\ step' = step + 1
                         /\ calls' = calls
                    ELSE /\ Appended
                         /\ NewCall.row[Len(NewCall.row)] = TurnInput
                         /\ IF NewCall.result.ok
                                THEN step' = -1
                                ELSE step' = step /\ data' = Append(data, TurnInput) ]_vars

C12_Witness ==
    /\ Len(calls) = 1
    /\ calls[1].result.ok
    /\ calls[1].row[2] = T_English
    /\ calls[1].row[3] = T_Al
    /\ calls[1].row[1 + Len(QUESTIONS_EN)] = T_Al

(***************************************************************************)
(* C13.  Every turn, whatever its outcome, adds exactly two entries to the *)
(* transcript, the user's input and then one assistant response; nothing   *)
(* else changes the state; earlier entries are never changed or removed.   *)
(***************************************************************************)
C13_TranscriptGrowsByTwo ==
    /\ [][ /\ Len(messages') = Len(messages) + 2
           /\ SubSeq(messages', 1, Len(messages)) = messages
           /\ messages'[Len(messages) + 1].role = "user"
           /\ messages'[Len(messages) + 1].content # <<>>
           /\ messages'[Len(messages) + 2].role = "assistant"
           /\ messages'[Len(messages) + 2].content # <<>> ]_vars
    /\ [](/\ messages[1] = [role |-> "assistant", content |-> GreetingText]
          /\ \A i \in 2..Len(messages) :
                messages[i].role = (IF i % 2 = 0 THEN "user" ELSE "assistant"))

C13_Witness ==
    /\ Len(messages) = 1 + 2 * (2 + Len(QUESTIONS_EN))
    /\ Len(calls) = 2
    /\ ~calls[1].result.ok
    /\ calls[2].result.ok
    /\ step = -1
    /\ messages[2].content = T_Espanol
    /\ messages[3].content = At(QUESTIONS_ES, 0).prompt
    /\ IsErrorResponse(messages[Len(messages) - 2])
    /\ LastResponse = ReceivedText


(***************************************************************************)
(* C14.  The locale does not affect validation.  The two question lists    *)
(* have the same length and, index by index, the same field name and the   *)
(* same options, and differ in the prompt.  And what a turn of the answer  *)
(* phase does to step, data and the row sent is fixed by step, data and    *)
(* the input alone, whichever locale is active: so two sessions given the  *)
(* same answers, one in en and one in es, accept and reject the same       *)
(* turns and hold the same step and data after each.                       *)
(***************************************************************************)
ParallelQuestions ==
    /\ Len(QUESTIONS_EN) = Len(QUESTIONS_ES)
    /\ \A i \in 0..LastIndex :
          /\ At(QUESTIONS_EN, i).field = At(QUESTIONS_ES, i).field
          /\ At(QUESTIONS_EN, i).options = At(QUESTIONS_ES, i).options
          /\ At(QUESTIONS_EN, i).prompt # At(QUESTIONS_ES, i).prompt

C14_LocaleBlindValidation ==
    /\ [](lang \in {None, "en", "es"} /\ ParallelQuestions)
    /\ [][ (TurnTaken /\ step # -1)
             => LET options == At(QUESTIONS_EN, step).options
                    s == TurnInput
                IN  IF Accepted(options, s)
                        THEN IF step < LastIndex
                                THEN /\ step' = step + 1
                                     /\ data' = Append(data, AnswerOf(options, s))
                                     /\ calls' = calls
                                ELSE /\ Appended
                                     /\ SubSeq(NewCall.row, 2, Len(NewCall.row))
                                            = Append(data, AnswerOf(options, s))
                        ELSE /\ step' = step
                             /\ data' = data
                             /\ calls' = calls
                             /\ TurnResponse = InvalidSelectionText ]_vars

C14_Witness ==
    /\ lang = "es"
    /\ step = 6
    /\ Len(data) = 6
    /\ data[6] = <<"AM", ", ", "Flexible">>
    /\ messages[Len(messages) - 3].content = T_5
    /\ messages[Len(messages) - 2].content = InvalidSelectionText
    /\ messages[Len(messages) - 1].content = T_1_3


(***************************************************************************)
(* C15.  The same locale choice and the same nine valid answers, given     *)
(* from two fresh locale-phase states (here: the session before and after  *)
(* the reset of a successful submission), produce two separate appends     *)
(* whose fields other than the timestamp are the same.                     *)
(***************************************************************************)
TurnsPerApplication == 1 + Len(QUESTIONS_EN)

\* what the user typed in the k-th application of a session without retries
TypedIn(k) ==
    [ i \in 1..TurnsPerApplication |-> messages[2 * (TurnsPerApplication * (k - 1) + i)].content ]

C15_SameAnswersSameRow ==
    (Len(calls) >= 2 /\ Len(messages) >= 1 + 4 * TurnsPerApplication /\ TypedIn(1) = TypedIn(2))
        => /\ calls[1].result.ok /\ calls[2].result.ok
           /\ Len(calls[1].row) = 1 + Len(QUESTIONS_EN)
           /\ IsTimestamp(calls[1].row[1]) /\ IsTimestamp(calls[2].row[1])
           /\ Tail(calls[1].row) = Tail(calls[2].row)

C15_Witness ==
    /\ Len(calls) = 2
    /\ TypedIn(1) = TypedIn(2)
    /\ TypedIn(1)[1] = T_Espanol
    /\ TypedIn(1)[7] = T_2_1
    /\ calls[1].row[1] # calls[2].row[1]
    /\ Tail(calls[1].row) = Tail(calls[2].row)
    /\ calls[2].row[7] = <<"PM", ", ", "AM">>
    /\ step = -1


(***************************************************************************)
(* C16.  The engine has no terminal state: a session, the one that has     *)
(* seen a failed append too, takes turn after turn (to the MaxTurnsLive    *)
(* turns the model follows).  And with a user who ends up giving a valid   *)
(* locale and valid answers and a sheet that ends up taking the row, an    *)
(* application that is under way or about to start is submitted, which     *)
(* leaves the engine in the locale phase, from where the next one starts.  *)
(* The applications meant are those with turns left for their locale,      *)
(* their answers, their re-prompts and their retries.                      *)
(***************************************************************************)
Submitted == step = -1 /\ calls # <<>> /\ calls[Len(calls)].result.ok /\ LastResponse = ReceivedText

Setbacks == MaxSetbacks - SetbacksSoFar

TurnsToSubmit == IF step = -1 THEN 1 + Len(QUESTIONS_EN) ELSE Len(QUESTIONS_EN) - step

Pending == ~Submitted /\ Turns + TurnsToSubmit + Setbacks <= MaxTurnsLive

C16_NoTerminalState ==
    /\ <>(Turns = MaxTurnsLive)
    /\ Pending ~> Submitted

C16_Witness ==
    /\ Len(calls) = 3
    /\ ~calls[1].result.ok
    /\ calls[2].result.ok
    /\ calls[3].result.ok
    /\ Submitted
    /\ Turns < MaxTurnsLive

(***************************************************************************)
(* C17.  In every reachable state the answers collected are those of the   *)
(* questions before the one being asked: Len(data) = step while a question *)
(* is asked, and data is empty in the locale phase.                        *)
(***************************************************************************)
C17_DataMatchesCursor ==
    IF step = -1 THEN data = <<>> ELSE Len(data) = step

(***************************************************************************)
(* C18.  In every reachable state step is -1 or the index of a question    *)
(* of the list in use, and lang is "en" or "es" exactly when step is an    *)
(* index and None exactly when step is -1.                                 *)
(***************************************************************************)
C18_CursorAndLocale ==
    /\ step = -1 \/ step \in 0..LastIndex
    /\ step # -1 => (lang \in {"en", "es"} /\ step < Len(QList(lang)))
    /\ step = -1 => lang = None
    /\ lang \in {"en", "es", None}

C18_Witness ==
    /\ JustFailed
    /\ step = LastIndex
    /\ lang = "es"
    /\ Len(data) > step

(***************************************************************************)
(* C19.  While a question is asked no turn changes lang, but the turn      *)
(* whose append succeeds, which resets it to None; and an input with a     *)
(* locale keyword typed on a free-text question is the answer to that      *)
(* question (the last answer of the row when that turn submits).           *)
(***************************************************************************)
NamesLocale(s) == HasKeyword(s, KeywordsES \cup KeywordsEN)

C19_LocaleFixed ==
    [][ (TurnTaken /\ step # -1)
          => /\ \/ lang' = lang
                \/ Appended /\ NewCall.result.ok /\ lang' = None /\ step' = -1
             /\ (NamesLocale(TurnInput) /\ CurrentOptions = NoOptions)
                  => /\ step' # 0
                     /\ IF Appended
                            THEN NewCall.row[Len(NewCall.row)] = TurnInput
                            ELSE data' = Append(data, TurnInput) /\ step' = step + 1 ]_vars

C19_Witness ==
    /\ lang = "es"
    /\ step = 1
    /\ data = <<T_English>>
    /\ messages[Len(messages) - 1].content = T_English

====
